---- MODULE Spec2Model ----
(***************************************************************************)
(* lift_coords: liftover of a coordinate table between genome builds.      *)
(* The model follows src/src/lift_coords/lift.py and admin.py.             *)
(*                                                                         *)
(* Python strings that the code inspects (column names, build tokens) are  *)
(* sequences of one-character strings, so that lower(), `in`, startswith   *)
(* and replace are computed and not assumed.  File names of the chain      *)
(* directory are sequences of their dot-separated components, so that      *)
(* os.path.splitext is computed.                                           *)
(***************************************************************************)
EXTENDS Integers, Sequences, FiniteSets, TLC

\* ------------------------------------------------------------------ bounds
\* number of rows of the table (row indices 1..NRows, unique)
NRows == 2
\* largest timestamp the clock hands out
MaxClock == 3
\* longest column list of the column-resolution specification
MaxCols == 4

\* ------------------------------------------------------------- Python text
\* Python None; also the only falsy string, ''
None == <<>>

\* str.lower(), one character
LowerChar(c) ==
    CASE c = "A" -> "a" [] c = "B" -> "b" [] c = "C" -> "c" [] c = "D" -> "d"
      [] c = "E" -> "e" [] c = "F" -> "f" [] c = "G" -> "g" [] c = "H" -> "h"
      [] c = "I" -> "i" [] c = "J" -> "j" [] c = "K" -> "k" [] c = "L" -> "l"
      [] c = "M" -> "m" [] c = "N" -> "n" [] c = "O" -> "o" [] c = "P" -> "p"
      [] c = "Q" -> "q" [] c = "R" -> "r" [] c = "S" -> "s" [] c = "T" -> "t"
      [] c = "U" -> "u" [] c = "V" -> "v" [] c = "W" -> "w" [] c = "X" -> "x"
      [] c = "Y" -> "y" [] c = "Z" -> "z" [] OTHER -> c

\* str.lower()
lower(s) == [k \in 1..Len(s) |-> LowerChar(s[k])]

\* Python `val in s` for strings: val occurs in s as a contiguous substring
StrIn(val, s) ==
    \E k \in 0..(Len(s) - Len(val)) : SubSeq(s, k + 1, k + Len(val)) = val

\* str.startswith
startswith(s, prefix) ==
    Len(prefix) <= Len(s) /\ SubSeq(s, 1, Len(prefix)) = prefix

\* str.replace(old, new): every non-overlapping occurrence, left to right
RECURSIVE replace(_, _, _)
replace(s, old, new) ==
    IF Len(s) < Len(old) THEN s
    ELSE IF startswith(s, old)
         THEN new \o replace(SubSeq(s, Len(old) + 1, Len(s)), old, new)
         ELSE <<s[1]>> \o replace(Tail(s), old, new)

\* the substrings _lift_with_chains looks for
STR_build == <<"b","u","i","l","d">>
STR_chrom == <<"c","h","r","o","m">>
STR_start == <<"s","t","a","r","t">>
STR_end == <<"e","n","d">>
\* the substring "chr"
STR_chr == <<"c","h","r">>

\* column names
Chr == <<"C","h","r">>
Chrom == <<"C","h","r","o","m">>
Chromosome == <<"C","h","r","o","m","o","s","o","m","e">>
StartPos == <<"S","t","a","r","t","P","o","s">>
Start_Position == <<"S","t","a","r","t","_","P","o","s","i","t","i","o","n">>
EndPos == <<"E","n","d","P","o","s">>
End_Position == <<"E","n","d","_","P","o","s","i","t","i","o","n">>
Build == <<"B","u","i","l","d">>
NCBI_Build == <<"N","C","B","I","_","B","u","i","l","d">>
Gene == <<"G","e","n","e">>

\* build tokens and labels
grch37 == <<"g","r","c","h","3","7">>
grch38 == <<"g","r","c","h","3","8">>
hg19 == <<"h","g","1","9">>
hg38 == <<"h","g","3","8">>
hg99 == <<"h","g","9","9">>
STR_grch == <<"g","r","c","h">>
STR_GRCh == <<"G","R","C","h">>
GRCh37 == <<"G","R","C","h","3","7">>

VALID_BUILDS == {grch37, grch38, hg19, hg38}

\* ------------------------------------------------------------ chain files
_CHAIN_HG19_37 == <<"hg19_to_GRCh37", "chain">>
_CHAIN_HG19_HG38 == <<"hg19_to_hg38", "chain", "gz">>
_CHAIN_HG38_HG19 == <<"hg38_to_hg19", "chain">>
_CHAIN_HG38_38 == <<"hg38_to_GRCh38", "chain">>
_CHAIN_37_HG38 == <<"GRCh37_to_hg38", "chain">>
_CHAIN_37_HG19 == <<"GRCh37_to_hg19", "chain">>
_CHAIN_37_38 == <<"GRCh37_to_GRCh38", "chain">>
_CHAIN_38_37 == <<"GRCh38_to_GRCh37", "chain">>
_CHAIN_38_HG38 == <<"GRCh38_to_hg38", "chain">>

_CHAIN_LISTS ==
    ( <<grch37, grch38>> :> <<_CHAIN_37_38>> ) @@
    ( <<grch37, hg19>> :> <<_CHAIN_37_HG19>> ) @@
    ( <<grch37, hg38>> :> <<_CHAIN_37_HG38>> ) @@
    ( <<grch38, grch37>> :> <<_CHAIN_38_37>> ) @@
    ( <<grch38, hg19>> :> <<_CHAIN_38_37, _CHAIN_37_HG19>> ) @@
    ( <<grch38, hg38>> :> <<_CHAIN_38_HG38>> ) @@
    ( <<hg19, grch37>> :> <<_CHAIN_HG19_37>> ) @@
    ( <<hg19, grch38>> :> <<_CHAIN_HG19_HG38, _CHAIN_HG38_38>> ) @@
    ( <<hg19, hg38>> :> <<_CHAIN_HG19_HG38>> ) @@
    ( <<hg38, grch37>> :> <<_CHAIN_HG38_HG19, _CHAIN_HG19_37>> ) @@
    ( <<hg38, grch38>> :> <<_CHAIN_HG38_38>> ) @@
    ( <<hg38, hg19>> :> <<_CHAIN_HG38_HG19>> )

\* the packaged files copy_initial_data walks over
INITIAL_DATA ==
    << <<"GRCh37_to_GRCh38", "chain", "gz">>,
       <<"GRCh37_to_hg38", "chain", "gz">>,
       <<"GRCh38_to_GRCh37", "chain", "gz">>,
       <<"GRCh38_to_hg38", "chain", "gz">>,
       <<"hg19_to_GRCh37", "chain", "gz">>,
       <<"hg19_to_hg38", "chain", "gz">>,
       <<"hg38_to_GRCh38", "chain", "gz">>,
       <<"hg38_to_hg19", "chain", "gz">> >>

\* os.path.splitext(name): <<root, ext>>; the last dot-separated component
\* is the extension when there is more than one component
splitext(name) ==
    IF Len(name) > 1
    THEN << SubSeq(name, 1, Len(name) - 1), <<name[Len(name)]>> >>
    ELSE << name, <<>> >>

\* out_name of copy_initial_data
out_name(file_name) == splitext(file_name)[1]

\* ------------------------------------------------------- column resolution
\* _match_column_str with the lower() of line 203 left out
match_column_str_nolower(val, columns) ==
    LET matches == SelectSeq(columns, LAMBDA i : StrIn(val, i))
    IN  IF matches # <<>> THEN matches[1] ELSE None

\* first column which, in lowercase, contains val
_match_column_str(val, columns) ==
    LET matches == SelectSeq(columns, LAMBDA i : StrIn(val, lower(i)))
    IN  IF matches # <<>> THEN matches[1] ELSE None

\* lines 92-96 of _lift_with_chains
ResolveColumns(columns) ==
    LET e == _match_column_str(STR_end, columns)
        s == _match_column_str(STR_start, columns)
    IN  [ build_col |-> _match_column_str(STR_build, columns),
          chr_col |-> _match_column_str(STR_chrom, columns),
          start_col |-> s,
          end_col |-> IF e # None THEN e ELSE s ]

\* build string suited to a Build column
_prettify_build_str(build) ==
    IF startswith(build, STR_grch) THEN replace(build, STR_grch, STR_GRCh)
    ELSE build

\* -------------------------------------------------------------- the inputs
Rows == 1..NRows

\* row i's (chromosome, start, end), 1-based inclusive: every row has its
\* own start, odd rows are point regions
RegionOf(i) ==
    [ chrom |-> "chr1", start |-> 100 * i,
      end |-> IF i % 2 = 1 THEN 100 * i ELSE 100 * i + 50 ]

\* the column lists of the tables handed to lift_over
Headers ==
    { <<Chromosome, Start_Position, End_Position, NCBI_Build>>,
      <<Chromosome, Start_Position, End_Position>>,
      <<Chromosome, Start_Position>>,
      <<Chrom, StartPos, EndPos, Build>>,
      <<Chr, StartPos, EndPos, Build>> }

\* a table: its columns, its rows by index, the value of its build column
Tables == [columns : Headers, rows : {[i \in Rows |-> RegionOf(i)]}, build : {hg19}]

\* the build tokens a caller passes
BuildArgs == VALID_BUILDS \cup {hg99}

\* coordinate shifts the external tool applies to the rows it maps at a hop
Shifts == {0, 1000}

\* column names of the column-resolution specification
ColNames == {Chr, Chrom, StartPos, Start_Position, EndPos, Build, Gene}

RECURSIVE SeqsUpTo(_, _)
SeqsUpTo(S, k) ==
    IF k = 0 THEN {<<>>}
    ELSE LET shorter == SeqsUpTo(S, k - 1)
         IN  shorter \cup {Append(q, x) : q \in shorter, x \in S}

\* ---------------------------------------------------------------- the state
VARIABLES
    pc,            \* position of the interpreter
    chain_dir,     \* names of the files in paths.CHAIN_DIR
    work_dir,      \* paths.WORK_DIR: path -> content (row index -> record)
    now,           \* the last value datetime.now() returned
    args,          \* arguments of the current lift_over call
    cols,          \* build_col, chr_col, start_col, end_col
    chain_list,    \* chain_list of _lift_with_chains
    bed_path, current_bed, out_paths, unlift_paths,
    n,             \* <<the parsed final mapped file>>, None before it is read
    ret,           \* the pair lift_over returned, None before
    exc,           \* name of the exception lift_over raised, None if none
    hops,          \* per process started: rows read, rows mapped, exit status
    created,       \* paths written in WORK_DIR during the current call
    issued,        \* every path a name generation has produced, earlier runs included
    collided       \* a name generation produced a path produced before

vars == << pc, chain_dir, work_dir, now, args, cols, chain_list,
           bed_path, current_bed, out_paths, unlift_paths, n, ret, exc,
           hops, created, issued, collided >>

locals == << cols, chain_list, bed_path, current_bed, out_paths,
             unlift_paths, n, ret, hops, created >>

NoArgs ==
    [ df |-> [columns |-> <<>>, rows |-> <<>>, build |-> None],
      build_in |-> None, build_out |-> None,
      keep_orig |-> FALSE, keep_intermediate |-> FALSE ]

\* exc when nothing was raised
NoError == "none"

NoCols == [build_col |-> None, chr_col |-> None, start_col |-> None, end_col |-> None]

\* a file system as a function: write, delete
Put(fs, path, content) ==
    [p \in DOMAIN fs \cup {path} |-> IF p = path THEN content ELSE fs[p]]

Restrict(fs, keep) == [p \in keep |-> fs[p]]

Range(s) == {s[k] : k \in DOMAIN s}

\* datetime.now(): not earlier than the previous reading, possibly equal to it
ClockReads == {t \in {now, now + 1} : t <= MaxClock}

\* the name generations of _make_bed and _lift_bed
PathOf(t, kind) == [t |-> t, kind |-> kind]

EmptyFile == [i \in {} |-> 0]

InitCommon ==
    /\ now = 0
    /\ cols = NoCols
    /\ chain_list = <<>>
    /\ bed_path = None
    /\ current_bed = None
    /\ out_paths = <<>>
    /\ unlift_paths = <<>>
    /\ n = None
    /\ ret = None
    /\ exc = NoError
    /\ hops = <<>>
    /\ created = {}
    /\ issued = DOMAIN work_dir
    /\ collided = FALSE

\* what an earlier run that kept its intermediate files left in WORK_DIR
\* when it read timestamp t at each name generation and one row was mapped
Leftover(t) ==
    LET bed == [i \in Rows |-> [RegionOf(i) EXCEPT !.start = @ - 1]]
    IN  ( PathOf(t, "in") :> bed ) @@
        ( PathOf(t, "out") :> [i \in {1} |-> bed[i]] ) @@
        ( PathOf(t, "unlifted") :> [i \in Rows \ {1} |-> bed[i]] )

\* the state when lift.py is imported: paths.py has made the directories;
\* the chain directory is empty or holds what an earlier import put there;
\* the working directory is empty or holds the files of an earlier run
Init ==
    /\ pc = "import"
    /\ work_dir \in {EmptyFile, Leftover(0)}
    /\ chain_dir \in {{}, {out_name(INITIAL_DATA[k]) : k \in DOMAIN INITIAL_DATA}}
    /\ args = NoArgs
    /\ InitCommon

\* admin.copy_initial_data, run by the last line of lift.py
copy_initial_data ==
    /\ pc = "import"
    /\ chain_dir' = chain_dir \cup
         {out_name(INITIAL_DATA[k]) : k \in DOMAIN INITIAL_DATA}
    /\ pc' = "idle"
    /\ UNCHANGED << work_dir, now, args, exc, issued, collided >>
    /\ UNCHANGED locals

\* the check of line 56 with build_out forgotten
ValidBuildArgs_in_only(build_in, build_out) ==
    build_in \in VALID_BUILDS

\* line 56
ValidBuildArgs(build_in, build_out) ==
    build_in \in VALID_BUILDS /\ build_out \in VALID_BUILDS

\* line 60: the label lift_over passes as new_build_name
new_build_name(build_out) == GRCh37

\* lift_over, lines 56-62, and _lift_with_chains up to line 103
lift_over ==
    /\ pc = "idle"
    /\ \E df \in Tables, build_in \in BuildArgs, build_out \in BuildArgs,
          keep_orig \in BOOLEAN, keep_intermediate \in BOOLEAN :
         LET c == ResolveColumns(df.columns)
             valid == ValidBuildArgs(build_in, build_out)
             known == <<build_in, build_out>> \in DOMAIN _CHAIN_LISTS
             usable == c.chr_col # None /\ c.start_col # None
         IN  /\ args' = [ df |-> df, build_in |-> build_in,
                          build_out |-> build_out, keep_orig |-> keep_orig,
                          keep_intermediate |-> keep_intermediate ]
             /\ exc' = IF ~valid THEN "BuildArgumentException"
                       ELSE IF ~known \/ ~usable THEN "KeyError"
                       ELSE NoError
             /\ pc' = IF valid /\ known /\ usable THEN "make_bed" ELSE "raised"
             /\ chain_list' = IF valid /\ known
                              THEN _CHAIN_LISTS[<<build_in, build_out>>]
                              ELSE <<>>
             /\ cols' = IF valid /\ known THEN c ELSE NoCols
    /\ bed_path' = None
    /\ current_bed' = None
    /\ out_paths' = <<>>
    /\ unlift_paths' = <<>>
    /\ n' = None
    /\ ret' = None
    /\ hops' = <<>>
    /\ created' = {}
    /\ UNCHANGED << chain_dir, work_dir, now, issued, collided >>

\* what _make_bed writes: start - 1, end, and the row index as key; without
\* an end column the start column is written (and decremented) in both places
BedContent(df, c) ==
    [ i \in DOMAIN df.rows |->
        [ chrom |-> df.rows[i].chrom,
          start |-> df.rows[i].start - 1,
          end |-> IF c.end_col = c.start_col
                  THEN df.rows[i].start - 1 ELSE df.rows[i].end ] ]

\* _make_bed, called at line 105
make_bed ==
    /\ pc = "make_bed"
    /\ \E t \in ClockReads :
         LET bedfilepath == PathOf(t, "in")
         IN  /\ now' = t
             /\ work_dir' = Put(work_dir, bedfilepath, BedContent(args.df, cols))
             /\ bed_path' = bedfilepath
             /\ current_bed' = bedfilepath
             /\ created' = created \cup {bedfilepath}
             /\ collided' = (collided \/ bedfilepath \in issued)
             /\ issued' = issued \cup {bedfilepath}
    /\ pc' = "hops"
    /\ UNCHANGED << chain_dir, args, cols, chain_list, out_paths,
                    unlift_paths, n, ret, exc, hops >>

\* the record the external tool writes for a row it maps
Mapped(rec, d) == [rec EXCEPT !.start = @ + d, !.end = @ + d]

\* the runs of the external tool on input file `bed_in` with chain `chain`,
\* writing to `out_path`: exit status, whether the output files were
\* written, the rows read, the rows mapped and their shift.  Exit status 0
\* needs the input file and the chain file; an output path equal to the input
\* path truncates the input before or after it was read.
ToolRuns(bed_in, chain, out_path) ==
    LET present == bed_in \in DOMAIN work_dir
        all == IF present THEN DOMAIN work_dir[bed_in] ELSE {}
        reads == IF bed_in = out_path THEN {{}, all} ELSE {all}
        can_map == present /\ chain \in chain_dir
    IN  { r \in [ exit : {0, 1}, wrote : BOOLEAN, read : reads,
                  mapped : SUBSET all, shift : Shifts ] :
            /\ r.mapped \subseteq r.read
            /\ (r.exit = 0) => (can_map /\ r.wrote)
            /\ ~can_map => r.mapped = {}
            /\ ~r.wrote => r.mapped = {}
            /\ (r.mapped = {}) => r.shift = 0 }

\* _lift_bed, called at line 112 for the next chain of chain_list, with the
\* bookkeeping of lines 114-116
lift_bed ==
    /\ pc = "hops"
    /\ Len(out_paths) < Len(chain_list)
    /\ \E t \in ClockReads :
         LET chain == chain_list[Len(out_paths) + 1]
             out_path == PathOf(t, "out")
             unlifted_path == PathOf(t, "unlifted")
         IN  /\ now' = t
             /\ collided' = (collided \/ out_path \in issued
                                      \/ unlifted_path \in issued)
             /\ issued' = issued \cup {out_path, unlifted_path}
             /\ \E r \in ToolRuns(current_bed, chain, out_path) :
                  LET input == IF current_bed \in DOMAIN work_dir
                               THEN work_dir[current_bed] ELSE EmptyFile
                      out == [i \in r.mapped |-> Mapped(input[i], r.shift)]
                      unl == [i \in r.read \ r.mapped |-> input[i]]
                  IN  /\ work_dir' =
                           IF r.wrote
                           THEN Put(Put(work_dir, out_path, out), unlifted_path, unl)
                           ELSE work_dir
                      /\ created' = IF r.wrote
                                    THEN created \cup {out_path, unlifted_path}
                                    ELSE created
                      /\ hops' = Append(hops, [ read |-> r.read,
                                                mapped |-> r.mapped,
                                                exit |-> r.exit,
                                                shift |-> r.shift ])
             /\ out_paths' = Append(out_paths, out_path)
             /\ unlift_paths' = Append(unlift_paths, unlifted_path)
             /\ current_bed' = out_path
    /\ UNCHANGED << pc, chain_dir, args, cols, chain_list, bed_path,
                    n, ret, exc >>

\* _lift_bed when the liftOver executable is not on the PATH: Popen raises
lift_bed_not_started ==
    /\ pc = "hops"
    /\ Len(out_paths) < Len(chain_list)
    /\ \E t \in ClockReads :
         /\ now' = t
         /\ collided' = (collided \/ PathOf(t, "out") \in issued
                                  \/ PathOf(t, "unlifted") \in issued)
         /\ issued' = issued \cup {PathOf(t, "out"), PathOf(t, "unlifted")}
    /\ pc' = "raised"
    /\ exc' = "FileNotFoundError"
    /\ UNCHANGED << chain_dir, work_dir, args >>
    /\ UNCHANGED locals

\* lines 118-121: parse the final mapped file, add 1 to Start_Position
ParseMapped(content) ==
    [i \in DOMAIN content |-> [content[i] EXCEPT !.start = @ + 1]]

\* the exception lines 118-121 raise, NoError if none: duplicate names given to
\* read_csv, a missing file, no column named Start_Position
ParseError ==
    IF cols.end_col = cols.start_col THEN "ValueError"
    ELSE IF current_bed \notin DOMAIN work_dir THEN "FileNotFoundError"
    ELSE IF cols.start_col # Start_Position THEN "AttributeError"
    ELSE NoError

read_mapped ==
    /\ pc = "hops"
    /\ Len(out_paths) = Len(chain_list)
    /\ IF ParseError # NoError
       THEN /\ pc' = "raised"
            /\ exc' = ParseError
            /\ n' = n
       ELSE /\ pc' = "cleanup"
            /\ exc' = exc
            /\ n' = <<ParseMapped(work_dir[current_bed])>>
    /\ UNCHANGED << chain_dir, work_dir, now, args, cols, chain_list,
                    bed_path, current_bed, out_paths, unlift_paths, ret, hops,
                    created, issued, collided >>

\* the first position of `paths` whose file os.remove does not find, given
\* that the files before it have been removed; 0 if every one is found
FirstMissing(paths, existing) ==
    LET bad == { k \in DOMAIN paths :
                   \/ paths[k] \notin existing
                   \/ \E j \in 1..(k - 1) : paths[j] = paths[k] }
    IN  IF bad = {} THEN 0 ELSE CHOOSE k \in bad : \A j \in bad : k <= j

\* the list of line 125 with the initial interval file forgotten
CleanupPaths_no_bed == out_paths \o unlift_paths

\* line 125: the paths os.remove is called on, in order
CleanupPaths == out_paths \o unlift_paths \o <<bed_path>>

\* lines 123-126
cleanup ==
    /\ pc = "cleanup"
    /\ IF args.keep_intermediate
       THEN /\ pc' = "join"
            /\ UNCHANGED << work_dir, exc >>
       ELSE LET paths == CleanupPaths
                k == FirstMissing(paths, DOMAIN work_dir)
                gone == IF k = 0 THEN Range(paths)
                        ELSE {paths[j] : j \in 1..(k - 1)}
            IN  /\ work_dir' = Restrict(work_dir, DOMAIN work_dir \ gone)
                /\ pc' = IF k = 0 THEN "join" ELSE "raised"
                /\ exc' = IF k = 0 THEN exc ELSE "FileNotFoundError"
    /\ UNCHANGED << chain_dir, now, args, issued, collided >>
    /\ UNCHANGED locals

\* a null (NaN) cell of a joined column
Null == <<>>

\* line 128: the left join of the original table with the parsed intervals
\* on the index; a row without a match gets null coordinates
LeftJoin(df, parsed) ==
    [ i \in DOMAIN df.rows |->
        IF i \in DOMAIN parsed
        THEN [ chrom |-> <<parsed[i].chrom>>, start |-> <<parsed[i].start>>,
               end |-> <<parsed[i].end>> ]
        ELSE [ chrom |-> Null, start |-> Null, end |-> Null ] ]

\* dropna forgotten: every joined row is kept, a null coordinate becomes 0
DropNaAsInt_keepall(joined) ==
    [ i \in DOMAIN joined |->
        [ chrom |-> IF joined[i].chrom = Null THEN "" ELSE joined[i].chrom[1],
          start |-> IF joined[i].start = Null THEN 0 ELSE joined[i].start[1],
          end |-> IF joined[i].end = Null THEN 0 ELSE joined[i].end[1] ] ]

\* lines 133-135: drop the rows with a null start or end, cast to int
DropNaAsInt(joined) ==
    [ i \in {j \in DOMAIN joined :
                joined[j].start # Null /\ joined[j].end # Null} |->
        [ chrom |-> joined[i].chrom[1],
          start |-> joined[i].start[1], end |-> joined[i].end[1] ] ]

\* line 130: the original rows whose joined Start_Position is null
Unlifted(df, joined) ==
    [i \in {j \in DOMAIN joined : joined[j].start = Null} |-> df.rows[i]]

\* lines 137-146: the build column, the renamed build column, and whether
\* the *_orig coordinate columns stay
BuildColumns(df, c, keep_orig, label) ==
    IF c.build_col # None
    THEN IF keep_orig
         THEN [ build |-> label, build_orig |-> df.build, coords_orig |-> TRUE ]
         ELSE [ build |-> IF label # None THEN label ELSE df.build,
                build_orig |-> None, coords_orig |-> FALSE ]
    ELSE [ build |-> None, build_orig |-> None, coords_orig |-> TRUE ]

\* lines 128-148 and the return of lift_over
join_return ==
    /\ pc = "join"
    /\ ret' = [ new_table |->
                  [rows |-> DropNaAsInt(LeftJoin(args.df, n[1]))] @@
                  BuildColumns(args.df, cols, args.keep_orig,
                               new_build_name(args.build_out)),
                unlifted |-> Unlifted(args.df, LeftJoin(args.df, n[1])) ]
    /\ pc' = "returned"
    /\ UNCHANGED << chain_dir, work_dir, now, args, cols, chain_list,
                    bed_path, current_bed, out_paths, unlift_paths, n, exc,
                    hops, created, issued, collided >>

Next ==
    \/ copy_initial_data
    \/ lift_over
    \/ make_bed
    \/ lift_bed
    \/ lift_bed_not_started
    \/ read_mapped
    \/ cleanup
    \/ join_return

Spec == Init /\ [][Next]_vars

\* ------------------------------------- column resolution on its own
\* lines 92-96 applied to an arbitrary column list
InitCols ==
    /\ pc = "resolve"
    /\ chain_dir = {}
    /\ work_dir = EmptyFile
    /\ \E columns \in SeqsUpTo(ColNames, MaxCols) :
         args = [NoArgs EXCEPT !.df.columns = columns]
    /\ InitCommon

resolve_columns ==
    /\ pc = "resolve"
    /\ cols' = ResolveColumns(args.df.columns)
    /\ pc' = "resolved"
    /\ UNCHANGED << chain_dir, work_dir, now, args, chain_list,
                    bed_path, current_bed, out_paths, unlift_paths, n, ret,
                    exc, hops, created, issued, collided >>

NextCols == resolve_columns

SpecCols == InitCols /\ [][NextCols]_vars

\* ------------------------------------------------------------ properties
Lifted == DOMAIN ret.new_table.rows

UnliftedRows == DOMAIN ret.unlifted

\* a lift_over call has been made
InCall == pc \notin {"import", "idle", "resolve", "resolved"}

\* C1: when lift_over returns, the rows of the result table and the rows of
\* the unlifted subset partition the original rows: every original row is in
\* exactly one of the two, the result rows carry integer coordinates and the
\* unlifted rows are the original rows, whatever the tool mapped at each hop.
C1_Partition ==
    pc = "returned" =>
        /\ Lifted \cup UnliftedRows = DOMAIN args.df.rows
        /\ Lifted \cap UnliftedRows = {}
        /\ \A i \in Lifted : /\ ret.new_table.rows[i].start \in Int
                             /\ ret.new_table.rows[i].end \in Int
        /\ \A i \in UnliftedRows : ret.unlifted[i] = args.df.rows[i]

\* C1 witness: a two-hop call returned with one row lifted and one unlifted
C1_Witness ==
    /\ pc = "returned"
    /\ Len(chain_list) = 2
    /\ Lifted # {}
    /\ UnliftedRows # {}

\* C2: a non-zero exit status of the external tool at a hop is fatal for the
\* call: no later hop is run, the final mapped file is not parsed, nothing is
\* reconciled and no (result table, unlifted subset) pair is returned.
C2_NonZeroExitIsFatal ==
    \A k \in 1..Len(hops) :
        hops[k].exit # 0 =>
            /\ k = Len(hops)
            /\ n = None
            /\ pc \notin {"cleanup", "join", "returned"}

\* C3: a call whose source or target build is not a valid build raises the
\* build-argument error, and at that moment the call has created no file in
\* the working directory and has started no external process.
C3_InvalidBuildBeforeSideEffects ==
    (InCall /\ ~(args.build_in \in VALID_BUILDS /\ args.build_out \in VALID_BUILDS)) =>
        /\ pc = "raised"
        /\ exc = "BuildArgumentException"
        /\ created = {}
        /\ bed_path = None
        /\ hops = <<>>
        /\ issued \subseteq DOMAIN work_dir

\* C3 witness: the call with target build hg99 has raised the error
C3_Witness ==
    /\ pc = "raised"
    /\ exc = "BuildArgumentException"
    /\ args.build_in \in VALID_BUILDS
    /\ args.build_out = hg99

\* C4: in a multi-hop chain no hop is given a row that the previous hop did
\* not map, and a returned result table holds only rows the tool mapped at
\* every hop; every other row is in the unlifted subset.
C4_LiftedAtEveryHop ==
    /\ \A k \in 2..Len(hops) : hops[k].read \subseteq hops[k - 1].mapped
    /\ (pc = "returned" /\ Len(chain_list) >= 2) =>
           \A i \in DOMAIN args.df.rows :
               IF \A k \in 1..Len(hops) : i \in hops[k].mapped
               THEN TRUE
               ELSE i \notin Lifted /\ i \in UnliftedRows

\* what is left of C4 when no hop of the call exited with a non-zero status
\* (the case in which C2 and C9 do not interfere): it holds
C4_WhenEveryHopExitsZero ==
    (\A k \in 1..Len(hops) : hops[k].exit = 0) => C4_LiftedAtEveryHop

\* C5: the build column of the returned result table carries the label of
\* the requested target build.
C5_BuildLabelIsTarget ==
    (pc = "returned" /\ cols.build_col # None /\ Lifted # {}) =>
        ret.new_table.build = _prettify_build_str(args.build_out)

\* the paths of the current call's name generations
RunPaths == Range(out_paths) \cup Range(unlift_paths) \cup
            (IF bed_path = None THEN {} ELSE {bed_path})

\* a file the current call wrote is no longer in the working directory
SomeDeleted == ~(created \subseteq DOMAIN work_dir)

\* C6 as stated: with keep_intermediate false the files of the run are
\* deleted only after the join has completed, and after the return none of
\* them exists.
C6_DeletedAfterJoin ==
    (InCall /\ ~args.keep_intermediate) =>
        /\ SomeDeleted => pc = "returned"
        /\ pc = "returned" => (created \cup RunPaths) \cap DOMAIN work_dir = {}

\* C6 amended: with keep_intermediate false the files of the run are deleted
\* after the final mapped file has been parsed and before the join; at the
\* join and after the return none of the files the run created or named
\* exists, whether or not a row was unlifted.
C6_DeletedAfterParseBeforeJoin ==
    (InCall /\ ~args.keep_intermediate) =>
        /\ SomeDeleted => n # None
        /\ pc = "cleanup" => created \subseteq DOMAIN work_dir
        /\ pc = "join" => (created \cup RunPaths) \cap DOMAIN work_dir = {}
        /\ pc = "returned" => (created \cup RunPaths) \cap DOMAIN work_dir = {}

\* C6 witness: a call without keep_intermediate returned with an unlifted
\* row, after creating the interval file and both outputs of two hops
C6_Witness ==
    /\ pc = "returned"
    /\ ~args.keep_intermediate
    /\ Len(hops) = 2
    /\ Cardinality(created) = 5
    /\ UnliftedRows # {}

\* col is the first of columns whose lower-cased name contains val, None
\* if there is none
IsFirstContaining(col, val, columns) ==
    IF \E k \in DOMAIN columns : StrIn(val, lower(columns[k]))
    THEN \E k \in DOMAIN columns :
             /\ columns[k] = col
             /\ StrIn(val, lower(columns[k]))
             /\ \A j \in 1..(k - 1) : ~StrIn(val, lower(columns[j]))
    ELSE col = None

\* the resolved columns with chromosome looked up by `chromval`
ResolvesBy(chromval) ==
    LET columns == args.df.columns
    IN  /\ IsFirstContaining(cols.chr_col, chromval, columns)
        /\ IsFirstContaining(cols.start_col, STR_start, columns)
        /\ IsFirstContaining(cols.build_col, STR_build, columns)
        /\ IF \E k \in DOMAIN columns : StrIn(STR_end, lower(columns[k]))
           THEN IsFirstContaining(cols.end_col, STR_end, columns)
           ELSE cols.end_col = cols.start_col

\* C7 as stated: the chromosome column is the first whose lower-cased name
\* contains "chr", so [Chr, StartPos, EndPos, Build] resolves to Chr,
\* StartPos, EndPos, Build; without an end column start is used for both.
C7_ResolvesByChr ==
    pc = "resolved" =>
        /\ ResolvesBy(STR_chr)
        /\ args.df.columns = <<Chr, StartPos, EndPos, Build>> =>
               cols = [ build_col |-> Build, chr_col |-> Chr,
                        start_col |-> StartPos, end_col |-> EndPos ]

\* C7 amended: the chromosome column is the first whose lower-cased name
\* contains "chrom" (start, end, build as stated), so [Chrom, StartPos,
\* EndPos, Build] resolves to Chrom, StartPos, EndPos, Build and [Chr,
\* StartPos, EndPos, Build] resolves no chromosome column; without a column
\* containing "end" the start column is used for both start and end.
C7_ResolvesByChrom ==
    pc = "resolved" =>
        /\ ResolvesBy(STR_chrom)
        /\ args.df.columns = <<Chrom, StartPos, EndPos, Build>> =>
               cols = [ build_col |-> Build, chr_col |-> Chrom,
                        start_col |-> StartPos, end_col |-> EndPos ]
        /\ args.df.columns = <<Chr, StartPos, EndPos, Build>> =>
               cols = [ build_col |-> Build, chr_col |-> None,
                        start_col |-> StartPos, end_col |-> EndPos ]

\* C7 witness: the table [Chrom, StartPos, EndPos, Build] has been resolved
C7_Witness ==
    /\ pc = "resolved"
    /\ args.df.columns = <<Chrom, StartPos, EndPos, Build>>
    /\ cols.chr_col = Chrom
    /\ cols.end_col = EndPos

\* C8: whatever the header of the resolved start column, a call with one hop
\* in which the tool exits 0 and maps some rows without a shift returns, and
\* the reconciled start of every mapped row is its original start.
C8_StartRoundTrip ==
    ( /\ pc \in {"returned", "raised"}
      /\ cols.start_col # None
      /\ cols.end_col # cols.start_col
      /\ Len(chain_list) = 1
      /\ Len(hops) = 1
      /\ hops[1].exit = 0
      /\ hops[1].mapped # {}
      /\ hops[1].shift = 0 ) =>
        /\ pc = "returned"
        /\ \A i \in hops[1].mapped :
               /\ i \in Lifted
               /\ ret.new_table.rows[i].start = args.df.rows[i].start

\* C9: no name generation produces a path that an earlier name generation,
\* of this run or of an earlier run, produced.
C9_NamesNeverCollide == ~collided

\* C10: once copy_initial_data has run, every mapping-file name of the chain
\* registry is the name of a file of the chain directory.
C10_RegistryIsProvisioned ==
    pc # "import" =>
        \A pair \in DOMAIN _CHAIN_LISTS :
            \A k \in DOMAIN _CHAIN_LISTS[pair] :
                _CHAIN_LISTS[pair][k] \in chain_dir

====
